---- MODULE Spec2Model ----
(***************************************************************************)
(* The run-control client of frontend/run-client (App.vue, with the Start  *)
(* form of components/ConfigEditor.vue).  One step of the model is one     *)
(* task of the browser's event loop: a click handler, a socket event, an   *)
(* inbound message or a timer, together with every promise continuation    *)
(* (microtask) it releases.                                                *)
(***************************************************************************)
EXTENDS Integers, Sequences, FiniteSets, TLC

\* ---------------------------------------------------------------- bounds
\* sendStart invocations in one run of Spec
MaxStarts == 3
\* inbound messages delivered in one run
MaxMsgs == 2
\* sendStatus / sendCancel invocations in one run
MaxQueries == 1
\* inbound payloads delivered in one run of SpecInbound
MaxInbound == 2
\* fetchJobs invocations in one run of SpecJobList
MaxListings == 2
\* loadJobs invocations in one run of SpecInference
MaxReloads == 2
\* runInference invocations in one run of SpecInference
MaxInferences == 1
\* connect invocations of the log page in one run of SpecLogs
MaxConnects == 2
\* disconnect invocations of the log page in one run
MaxDisconnects == 2
\* lines in the log page's buffer
MaxLogLines == 3
\* Start clicks in one run of SpecRestart
MaxRestarts == 2
\* inbound messages delivered in one run of SpecRestart
MaxRunMsgs == 1
\* Start clicks in one run of SpecLabels
MaxLabelStarts == 3
\* sendStart invocations in one run of SpecTimers
MaxTimedStarts == 3

\* ------------------------------------------------------------- constants
\* WebSocket.readyState values (App.vue:151,175,176,207 compare against them)
CONNECTING == "CONNECTING"
OPEN == "OPEN"
CLOSING == "CLOSING"
CLOSED == "CLOSED"

\* ws.value = null (App.vue:41)
NoSock == 0
\* currentRunId.value = null (App.vue:45)
NoRun == "null"
\* a field that a JSON object does not carry
Absent == "absent"

VARIABLES
  ws,            \* App.vue:41  handle of the control socket, NoSock for null
  connected,     \* App.vue:42
  cfgText,       \* App.vue:44  the v-model text, as the value JSON.parse sees
  currentRunId,  \* App.vue:45
  log,           \* App.vue:46  sequence of [text, cls]
  wsUrlOk,       \* App.vue:52  whether new WebSocket(wsUrl) accepts the URL
  socks,         \* every WebSocket made by connect(): [state, failing]
  calls,         \* every sendStart invocation (an async function activation)
  waiters,       \* invocations with listeners registered, in that order
  sent,          \* every frame handed to WebSocket.send: [sock, msg]
  raised,        \* number of exceptions that escaped sendStatus / sendCancel
  inbox,         \* every inbound message delivered so far, in order
  nqueries,      \* sendStatus / sendCancel invocations so far
  page,          \* main.js  window.location, __APP_CONFIG__, import.meta.env
  resolved,      \* the latest call of a URL function: [fn, arg, value]
  jobList,       \* part_000:39-44  the refs of JobListView and its abortCtrl
  inference,     \* InferencePage.vue:67-76  the refs of the inference page
  http,          \* every fetch() issued: [by, state]
  delivered,     \* the response handed to its caller last: [req, res]
  jobLogs,       \* part_001:21-24  the refs of the job log page
  logSocks       \* every WebSocket made by the log page: [state, failing]

\* the run-control client (App.vue)
controlVars == <<ws, connected, cfgText, currentRunId, log, wsUrlOk, socks,
                 calls, waiters, sent, raised, inbox, nqueries>>
\* the URL resolver (main.js)
urlVars == <<page, resolved>>

\* the job list and the inference page, and their requests
httpVars == <<jobList, inference, http, delivered>>
\* the job log page (part_001)
logsVars == <<jobLogs, logSocks>>

vars == <<controlVars, urlVars, httpVars, logsVars>>

\* The reactive state and the sockets, as one value the handlers transform.
State ==
  [ws |-> ws, connected |-> connected, cfgText |-> cfgText,
   currentRunId |-> currentRunId, log |-> log, socks |-> socks,
   calls |-> calls, waiters |-> waiters, sent |-> sent, raised |-> raised]

Commit(st) ==
  /\ ws' = st.ws
  /\ connected' = st.connected
  /\ cfgText' = st.cfgText
  /\ currentRunId' = st.currentRunId
  /\ log' = st.log
  /\ socks' = st.socks
  /\ calls' = st.calls
  /\ waiters' = st.waiters
  /\ sent' = st.sent
  /\ raised' = st.raised
  /\ UNCHANGED <<urlVars, httpVars, logsVars>>

\* ------------------------------------------------------------ JSON values
\* A text is the value JSON.parse makes of it: json = "bad" does not parse,
\* "null" parses to null, "obj" parses to an object with the fields given.
StartText(label) == [json |-> "obj", action_type |-> "start", cfg |-> label]
\* App.vue:53-60  the text onMounted installs
MountedText == StartText("Survived")

\* ------------------------------------------------------------------- log
appendLine(st, text, cls) ==
  [st EXCEPT !.log = Append(@, [text |-> text, cls |-> cls])]

setConnected(st, yes) == [st EXCEPT !.connected = yes]

\* ------------------------------------------------------- sendStart frames
\* One activation of the async function sendStart.  pc is the await it is
\* suspended at; sock the socket its listeners are registered on; made and
\* sentN count the sockets it created and the start frames it sent; closed
\* tells whether its disconnect() closed a live socket; cfg0 is the text it
\* was invoked with; end tells how it finished.
NewCall(st) ==
  [pc |-> "run", sock |-> NoSock, made |-> 0, sentN |-> 0, end |-> "none",
   cfg0 |-> st.cfgText,
   closed |-> /\ st.ws # NoSock
              /\ st.socks[st.ws].state \in {CONNECTING, OPEN}]

\* the async function returns (end = "sent", "errline", "silent") or its
\* promise rejects (end = "threw")
finish(st, c, how) ==
  [st EXCEPT !.calls[c].pc = "done", !.calls[c].sock = NoSock,
             !.calls[c].end = how]

\* addEventListener('open' | 'error' | 'close') and setTimeout of a wait
register(st, c, pc, sock) ==
  [st EXCEPT !.calls[c].pc = pc, !.calls[c].sock = sock,
             !.waiters = Append(@, c)]

\* cleanup(): clearTimeout and the three removeEventListener
cleanup(st, c) ==
  [st EXCEPT !.waiters = SelectSeq(@, LAMBDA x : x # c)]

\* ws.value.send(JSON.stringify(msg)) on the current handle: a frame on the
\* transport when the socket is OPEN, an exception when the handle is null or
\* the socket still CONNECTING, dropped by the socket when CLOSING or CLOSED
wsSend(st, msg) ==
  IF st.ws = NoSock \/ st.socks[st.ws].state = CONNECTING
  THEN [st EXCEPT !.raised = @ + 1]
  ELSE IF st.socks[st.ws].state = OPEN
  THEN [st EXCEPT !.sent = Append(@, [sock |-> st.ws, msg |-> msg])]
  ELSE st

StartMsg(payload) ==
  [action_type |-> payload.action_type, run_id |-> Absent, cfg |-> payload.cfg]

\* afterOpen with a fault: the start frame is sent twice
afterOpenDouble(st, c) ==
  LET s1 == wsSend(wsSend(st, StartMsg(st.cfgText)), StartMsg(st.cfgText))
      s2 == [s1 EXCEPT !.calls[c].sentN = @ + 2]
  IN finish(appendLine(s2, "sent start", ""), c, "sent")

\* App.vue:206-221  sendStart after the open wait resolved
afterOpen(st, c) ==
  IF st.ws = NoSock
  THEN finish(st, c, "threw")    \* 206: ws.value.readyState of null
  ELSE IF st.socks[st.ws].state # OPEN
  THEN finish(st, c, "silent")   \* 207
  ELSE IF st.cfgText.json = "bad"
  THEN finish(appendLine(st, "Config JSON error", "err"), c, "errline")
  ELSE IF st.cfgText.json = "null" \/ st.cfgText.action_type # "start"
  THEN finish(appendLine(st, "Config must be an object", "err"), c, "errline")
  ELSE LET s1 == wsSend(st, StartMsg(st.cfgText))
           s2 == [s1 EXCEPT !.calls[c].sentN = @ + 1]
       IN finish(appendLine(s2, "sent start", ""), c, "sent")

\* App.vue:205  the catch around the open wait
openRejected(st, c) ==
  finish(appendLine(st, "Cannot send", "err"), c, "errline")

\* App.vue:202  the close wait is awaited outside any try: its rejection is
\* the rejection of sendStart's own promise
closeRejected(st, c) == finish(st, c, "threw")

\* App.vue:174-198
waitForOpen(st, c, sock) ==
  IF sock = NoSock THEN openRejected(st, c)
  ELSE IF st.socks[sock].state = OPEN THEN afterOpen(st, c)
  ELSE IF st.socks[sock].state = CLOSED THEN openRejected(st, c)
  ELSE register(st, c, "waitOpen", sock)

\* App.vue:112-140.  The four on* handlers are Handler below.
connect(st) ==
  IF ~wsUrlOk
  THEN appendLine(st, "Failed to open WebSocket", "err")
  ELSE [st EXCEPT
          !.socks = Append(@, [state |-> CONNECTING, failing |-> FALSE]),
          !.ws = Len(st.socks) + 1]

\* App.vue:203-204  sendStart after the close wait resolved
afterClose(st, c) ==
  LET s1 == connect(st)
      s2 == [s1 EXCEPT !.calls[c].made = @ + (Len(s1.socks) - Len(st.socks))]
  IN waitForOpen(s2, c, s2.ws)

\* App.vue:149-173
waitForClose(st, c, sock) ==
  IF st.ws = NoSock THEN afterClose(st, c)
  ELSE IF st.socks[sock].state = CLOSED THEN afterClose(st, c)
  ELSE register(st, c, "waitClose", sock)

\* WebSocket.close(): a socket not yet established is failed (its close is
\* preceded by an error event); an open one starts the closing handshake.
wsClose(st, s) ==
  IF st.socks[s].state = CONNECTING
  THEN [st EXCEPT !.socks[s] = [state |-> CLOSING, failing |-> TRUE]]
  ELSE IF st.socks[s].state = OPEN
  THEN [st EXCEPT !.socks[s].state = CLOSING]
  ELSE st

\* App.vue:142-144
disconnect(st) == IF st.ws # NoSock THEN wsClose(st, st.ws) ELSE st

\* App.vue:200-204  the synchronous part of sendStart, and whatever follows
\* without waiting
sendStart(st) ==
  LET c == Len(st.calls) + 1
      s0 == [st EXCEPT !.calls = Append(@, NewCall(st))]
      s1 == disconnect(s0)
  IN waitForClose(s1, c, s1.ws)

\* settle with a fault: the timer of a wait does not end the wait
settleUntimed(st, c, ev) ==
  LET s1 == cleanup(st, c) IN
  IF ev = "timeout" THEN st
  ELSE IF st.calls[c].pc = "waitClose"
  THEN IF ev = "close" THEN afterClose(s1, c) ELSE closeRejected(s1, c)
  ELSE IF ev = "open" THEN afterOpen(s1, c) ELSE openRejected(s1, c)

\* One listener set of a wait is run for event ev ("open", "error", "close")
\* or its timer fires ("timeout"); the awaiting sendStart then continues.
settle(st, c, ev) ==
  LET s1 == cleanup(st, c) IN
  IF st.calls[c].pc = "waitClose"
  THEN IF ev = "close" THEN afterClose(s1, c) ELSE closeRejected(s1, c)
  ELSE IF ev = "open" THEN afterOpen(s1, c) ELSE openRejected(s1, c)

RECURSIVE settleAll(_, _, _)
settleAll(st, cs, ev) ==
  IF cs = <<>> THEN st
  ELSE LET c == Head(cs) IN
       settleAll(IF \E i \in 1..Len(st.waiters) : st.waiters[i] = c
                 THEN settle(st, c, ev) ELSE st,
                 Tail(cs), ev)

\* Handler with a fault: the close event forgets the cached run id
HandlerForgetting(st, ev) ==
  IF ev = "open"
  THEN appendLine(setConnected(st, TRUE), "WebSocket connected", "ok")
  ELSE IF ev = "close"
  THEN [appendLine(setConnected(st, FALSE), "WebSocket closed", "")
          EXCEPT !.ws = NoSock, !.currentRunId = NoRun]
  ELSE appendLine(st, "WebSocket error", "err")

\* App.vue:119-131  ws.value.onopen / onclose / onerror
Handler(st, ev) ==
  IF ev = "open"
  THEN appendLine(setConnected(st, TRUE), "WebSocket connected", "ok")
  ELSE IF ev = "close"
  THEN [appendLine(setConnected(st, FALSE), "WebSocket closed", "")
          EXCEPT !.ws = NoSock]
  ELSE appendLine(st, "WebSocket error", "err")

\* An event fired at socket s: the on* handler (set first, in connect), then
\* the listeners the waits added, in the order they were added.
fire(st, s, ev) ==
  LET s1 == Handler(st, ev)
      cs == SelectSeq(st.waiters, LAMBDA c : st.calls[c].sock = s)
  IN settleAll(s1, cs, ev)

\* ------------------------------------------------------ inbound messages
\* An inbound payload, as JSON.parse sees it.  run_id "" stands for a run_id
\* that is present but falsy.
Msg(j, t, sub, status, rid) ==
  [json |-> j, type |-> t, subtype |-> sub, status |-> status, run_id |-> rid]

RunIds == {Absent, "", "r1", "r2"}
Subtypes == {"log", "milestone", "finished", "error", "progress", Absent}

Messages ==
  {Msg("bad", Absent, Absent, Absent, Absent),
   Msg("null", Absent, Absent, Absent, Absent)}
  \cup {Msg("obj", "event", "milestone", Absent, r) : r \in RunIds}
  \cup {Msg("obj", "error", Absent, Absent, r) : r \in {Absent, "r2"}}
  \cup {Msg("obj", Absent, Absent, "fail", r) : r \in {Absent, "r2"}}
  \cup {Msg("obj", Absent, Absent, Absent, r) : r \in {Absent, "r1"}}

\* JavaScript truthiness of a field value
Truthy(v) == v # Absent /\ v # "" /\ v # NoRun

\* setRunId with a fault: the id is assigned whether or not the field is there
setRunIdAlways(st, obj) ==
  [st EXCEPT !.currentRunId = IF Truthy(obj.run_id) THEN obj.run_id ELSE NoRun]

\* App.vue:90,104  if (obj.run_id) currentRunId.value = obj.run_id
setRunId(st, obj) ==
  IF Truthy(obj.run_id) THEN [st EXCEPT !.currentRunId = obj.run_id] ELSE st

\* App.vue:75-109
appendEvent(st, obj) ==
  IF obj.type = "event"
  THEN LET subtype == IF Truthy(obj.subtype) THEN obj.subtype ELSE obj.type
           s1 == IF subtype = "log" THEN appendLine(st, "[log]", "")
                 ELSE IF subtype = "milestone"
                 THEN appendLine(st, "[milestone]", "ok")
                 ELSE IF subtype = "finished"
                 THEN appendLine(st, "[finished]", "ok")
                 ELSE IF subtype = "error"
                 THEN appendLine(st, "[error]", "err")
                 ELSE appendLine(st, "[subtype]", "")
       IN setRunId(s1, obj)
  ELSE IF obj.type = "error"
  THEN appendLine(st, "[protocol error]", "err")
  ELSE IF Truthy(obj.status)
  THEN setRunId(IF obj.status = "success"
                THEN appendLine(st, "[ok]", "ok")
                ELSE appendLine(st, "[fail]", "err"), obj)
  ELSE appendLine(st, "[other]", "")

\* onmessage with a fault: a payload that does not decode closes the socket
onmessageClosing(st, m) ==
  IF m.json = "bad" \/ m.json = "null"
  THEN disconnect(appendLine(st, "bad JSON from server", "err"))
  ELSE appendEvent(st, m)

\* App.vue:132-139  ws.value.onmessage: JSON.parse throws on malformed text,
\* appendEvent throws on null (obj.type of null); both land in the catch
onmessage(st, m) ==
  IF m.json = "bad" \/ m.json = "null"
  THEN appendLine(st, "bad JSON from server", "err")
  ELSE appendEvent(st, m)

\* ------------------------------------------------------ status and cancel
\* QueryMsg with a fault: the run id is left out
QueryMsgBare(kind, rid) ==
  [action_type |-> kind, run_id |-> Absent, cfg |-> Absent]

\* App.vue:226-228 and 235-237
QueryMsg(kind, rid) ==
  [action_type |-> kind, run_id |-> IF Truthy(rid) THEN rid ELSE Absent,
   cfg |-> Absent]

\* sendStatus with a fault: only the handle is checked, not its readyState
sendStatusUnguarded(st) ==
  IF st.ws = NoSock THEN st
  ELSE appendLine(wsSend(st, QueryMsg("status", st.currentRunId)),
                  "sent status", "")

\* App.vue:224-231
sendStatus(st) ==
  IF st.ws = NoSock \/ st.socks[st.ws].state # OPEN THEN st
  ELSE appendLine(wsSend(st, QueryMsg("status", st.currentRunId)),
                  "sent status", "")

\* App.vue:233-240
sendCancel(st) ==
  IF st.ws = NoSock \/ st.socks[st.ws].state # OPEN THEN st
  ELSE appendLine(wsSend(st, QueryMsg("cancel", st.currentRunId)),
                  "sent cancel", "")

\* clearLog with a fault: the socket is closed as well
clearLogClosing(st) == [disconnect(st) EXCEPT !.log = <<>>]

\* App.vue:146-148
clearLog(st) == [st EXCEPT !.log = <<>>]

\* --------------------------------------------------- the Start form
\* ConfigEditor.vue:146-155  the fields of the form that decide a Start click
Forms ==
  [label : {"", "Survived"},
   hyperparametersText : {"", "{bad"},
   tuningDataText : {"", "{bad"}]

\* ConfigEditor.vue:171-175
safeParse(jsonText) ==
  IF jsonText = "" THEN [ok |-> TRUE]
  ELSE IF jsonText = "{bad" THEN [ok |-> FALSE]
  ELSE [ok |-> TRUE]

isValidHyperparameters(form) == safeParse(form.hyperparametersText).ok

\* ConfigEditor.vue:177-180
isValid(form) ==
  safeParse(form.hyperparametersText).ok /\ safeParse(form.tuningDataText).ok
hasLabel(form) == form.label # ""

\* ConfigEditor.vue:205-210  clickStart: the text emitted as update:modelValue
clickStartText(form) == StartText(form.label)

\* --------------------------------------------------- the URL resolver
\* main.js.  A string is the sequence of its characters; None stands for the
\* null of searchParams.get and for a configuration property that is not
\* defined.
None == <<"undefined">>

\* JavaScript truthiness of a string-or-missing value: !v is true of null,
\* undefined and ""
nonEmpty(v) == v # None /\ v # <<>>

startsWith(s, t) == Len(s) >= Len(t) /\ SubSeq(s, 1, Len(t)) = t
endsWith(s, t) ==
  Len(s) >= Len(t) /\ SubSeq(s, Len(s) - Len(t) + 1, Len(s)) = t
drop(s, n) == SubSeq(s, n + 1, Len(s))

Digit == {"0", "1", "2", "3", "4", "5", "6", "7", "8", "9"}

\* [^/]+ and \d+ : how many leading characters of s the greedy class takes
RECURSIVE notSlashRun(_)
notSlashRun(s) ==
  IF s # <<>> /\ Head(s) # "/" THEN 1 + notSlashRun(Tail(s)) ELSE 0
RECURSIVE digitRun(_)
digitRun(s) ==
  IF s # <<>> /\ Head(s) \in Digit THEN 1 + digitRun(Tail(s)) ELSE 0

\* main.js:9  pathname.match(/^\/node\/[^/]+\/\d+\/?/): the length of m[0],
\* 0 when there is no match.  lead is the literal the pattern begins with.
matchProxyPrefix(pathname, lead) ==
  IF ~startsWith(pathname, lead) THEN 0
  ELSE LET afterLead == drop(pathname, Len(lead))
           h == notSlashRun(afterLead)
           afterHost == drop(afterLead, h)
       IN IF h = 0 \/ afterHost = <<>> THEN 0
          ELSE LET d == digitRun(Tail(afterHost))
                   rest == drop(Tail(afterHost), d)
               IN IF d = 0 THEN 0
                  ELSE Len(lead) + h + 1 + d
                         + (IF rest # <<>> /\ Head(rest) = "/" THEN 1 ELSE 0)

\* main.js:7-11
inferBasePath(pathname) ==
  LET n == matchProxyPrefix(pathname, <<"/", "n", "o", "d", "e", "/">>)
      m0 == SubSeq(pathname, 1, n)
  IN IF n = 0 THEN <<"/">>
     ELSE IF endsWith(m0, <<"/">>) THEN m0 ELSE m0 \o <<"/">>

\* part_002:7-10 (router).  The pattern is /^\/(r?node)\/[^/]+\/\d+\/?/: the
\* first segment is node or rnode.
inferOODBase(pathname) ==
  LET n1 == matchProxyPrefix(pathname, <<"/", "n", "o", "d", "e", "/">>)
      n == IF n1 # 0 THEN n1
           ELSE matchProxyPrefix(pathname,
                                 <<"/", "r", "n", "o", "d", "e", "/">>)
      m0 == SubSeq(pathname, 1, n)
  IN IF n = 0 THEN <<"/">>
     ELSE IF endsWith(m0, <<"/">>) THEN m0 ELSE m0 \o <<"/">>

\* main.js:13-16
join(a, b) ==
  LET a1 == IF ~endsWith(a, <<"/">>) THEN a \o <<"/">> ELSE a
  IN a1 \o (IF startsWith(b, <<"/">>) THEN Tail(b) ELSE b)

\* String.prototype.replace(pattern, "") with a string pattern: the first
\* occurrence is removed, the string is returned as it is when there is none
RECURSIVE removeFirst(_, _)
removeFirst(s, pat) ==
  IF Len(s) < Len(pat) THEN s
  ELSE IF startsWith(s, pat) THEN drop(s, Len(pat))
  ELSE <<Head(s)>> \o removeFirst(Tail(s), pat)

\* window.location.protocol values
Http == <<"h", "t", "t", "p", ":">>
Https == <<"h", "t", "t", "p", "s", ":">>
\* window.location.host of the page
PageHost == <<"a", "p", "p">>

\* the page the controller is served from when nothing is overridden
HomePage ==
  [protocol |-> Http, host |-> PageHost, pathname |-> <<"/">>,
   base |-> None, ws |-> None, BASE_URL |-> None, WS_URL |-> None,
   VITE_BASE_URL |-> None, VITE_WS_URL |-> None]

\* no URL function has been applied yet
NoResult == [fn |-> "none", arg |-> <<>>, value |-> <<>>]

\* pathnames for inferBasePath: a few short ones, and "/" then three
\* segments (first, host, port) drawn from the sets below, then nothing, "/"
\* or "/jobs"
Pathnames ==
  {<<"/">>, <<"/", "j", "o", "b", "s">>, <<"/", "n", "o", "d", "e">>,
   <<"/", "n", "o", "d", "e", "/", "l", "c", "0", "5">>,
   <<"/", "x", "/", "n", "o", "d", "e", "/", "l", "c", "0", "5", "/",
     "4", "2", "8", "0", "1", "/">>}
  \cup {<<"/">> \o s1 \o <<"/">> \o s2 \o <<"/">> \o s3 \o t :
          s1 \in {<<"n", "o", "d", "e">>, <<"r", "n", "o", "d", "e">>,
                  <<"n", "o", "d", "e", "s">>},
          s2 \in {<<"l", "c", "0", "5">>, <<>>},
          s3 \in {<<"4", "2", "8", "0", "1">>, <<"4", "2", "a">>,
                  <<"a", "4", "2">>, <<>>},
          t \in {<<>>, <<"/">>, <<"/", "j", "o", "b", "s">>}}

\* pages for getBaseURL and getWsURL: every combination of the four layers of
\* the base (each missing or set, three of them also set to the empty
\* string) and the three overrides of the WebSocket URL being there or not
Pages ==
  [protocol : {Http, Https},
   host : {PageHost},
   pathname : {<<"/">>, <<"/", "n", "o", "d", "e", "/", "l", "c", "0", "5",
               "/", "4", "2", "8", "0", "1", "/", "j", "o", "b", "s">>},
   base : {None, <<>>, <<"h", "t", "t", "p", "s", ":", "/", "/", "x", "/",
                 "c", "u", "s", "t", "o", "m", "/">>, <<"h", "t", "t", "p",
                 ":", "/", "/", "a", "p", "p", "/", "a", "p", "i">>},
   ws : {None, <<"w", "s", "s", ":", "/", "/", "q", "/", "w">>},
   BASE_URL : {None, <<>>, <<"h", "t", "t", "p", "s", ":", "/", "/", "y", "/",
                     "r", "u", "n">>},
   WS_URL : {None, <<"w", "s", ":", "/", "/", "c", "/", "w">>},
   VITE_BASE_URL : {None, <<>>, <<"h", "t", "t", "p", ":", "/", "/", "a", "p",
                          "p", "/", "v", "/">>},
   VITE_WS_URL : {None, <<"w", "s", ":", "/", "/", "v", "/", "w">>}]

Subpaths == {<<>>, <<"h", "i", "s", "t", "o", "r", "i", "c", "_", "j", "o",
             "b", "s">>, <<"/", "i", "n", "f", "e", "r", "e", "n", "c", "e">>}
WsPaths == {<<"c", "r", "e", "a", "t", "e", "_", "r", "u", "n">>, <<"/", "c",
            "r", "e", "a", "t", "e", "_", "r", "u", "n">>}

\* getBaseURL with a fault: the runtime configuration is asked before the
\* query string
getBaseURLConfigFirst(subpath) ==
  LET b1 == page.BASE_URL
      b2 == IF ~nonEmpty(b1) /\ nonEmpty(page.base) THEN page.base ELSE b1
      b3 == IF ~nonEmpty(b2) /\ nonEmpty(page.VITE_BASE_URL)
            THEN page.VITE_BASE_URL ELSE b2
      b4 == IF ~nonEmpty(b3)
            THEN page.protocol \o <<"/", "/">> \o page.host
                   \o inferBasePath(page.pathname)
            ELSE b3
      base == IF ~endsWith(b4, <<"/">>) THEN b4 \o <<"/">> ELSE b4
  IN IF subpath # <<>> THEN join(base, subpath) ELSE base

\* main.js:18-46.  page.base is u.searchParams.get("base"), page.BASE_URL
\* window.__APP_CONFIG__?.BASE_URL, page.VITE_BASE_URL
\* import.meta?.env?.VITE_BASE_URL.
getBaseURL(subpath) ==
  LET b1 == page.base
      b2 == IF ~nonEmpty(b1) /\ nonEmpty(page.BASE_URL)
            THEN page.BASE_URL ELSE b1
      b3 == IF ~nonEmpty(b2) /\ nonEmpty(page.VITE_BASE_URL)
            THEN page.VITE_BASE_URL ELSE b2
      b4 == IF ~nonEmpty(b3)
            THEN page.protocol \o <<"/", "/">> \o page.host
                   \o inferBasePath(page.pathname)
            ELSE b3
      base == IF ~endsWith(b4, <<"/">>) THEN b4 \o <<"/">> ELSE b4
  IN IF subpath # <<>> THEN join(base, subpath) ELSE base

\* main.js:49-64
getWsURL(path) ==
  IF nonEmpty(page.ws) THEN page.ws
  ELSE IF nonEmpty(page.WS_URL) THEN page.WS_URL
  ELSE IF nonEmpty(page.VITE_WS_URL) THEN page.VITE_WS_URL
  ELSE LET wsProto == IF page.protocol = Https THEN <<"w", "s", "s">>
                      ELSE <<"w", "s">>
           base == getBaseURL(<<>>)
           prefix == removeFirst(base, page.protocol \o <<"/",
                              "/">> \o page.host)
       IN wsProto \o <<":", "/", "/">> \o page.host \o join(prefix, path)

\* ----------------------------------------------------- HTTP responses
\* A response as the callers read it: res.status, and the body as res.json()
\* gives it (json = "bad": res.json() rejects; "null": it resolves to null).
\* ok is data.ok, job_ids data.job_ids, detail data.detail.
Body(j, ok, ids, detail) ==
  [json |-> j, ok |-> ok, job_ids |-> ids, detail |-> detail]

NoIds == [kind |-> "absent", items |-> <<>>]
TextIds == [kind |-> "string", items |-> <<>>]
Ids(items) == [kind |-> "array", items |-> items]

\* the {} that runInference puts in place of a body that does not parse
EmptyBody == Body("obj", Absent, NoIds, Absent)
\* null: the body null, and result.value before any response
NullBody == Body("null", Absent, NoIds, Absent)

ListBodies ==
  {Body("bad", Absent, NoIds, Absent), NullBody, EmptyBody,
   Body("obj", "false", NoIds, Absent),
   Body("obj", "false", Ids(<<"j1">>), Absent),
   Body("obj", "true", NoIds, Absent),
   Body("obj", "true", TextIds, Absent),
   Body("obj", "true", Ids(<<>>), Absent),
   Body("obj", "true", Ids(<<"j1", "j2">>), Absent)}

InferBodies ==
  {Body("bad", Absent, NoIds, Absent), NullBody, EmptyBody,
   Body("obj", "false", NoIds, Absent),
   Body("obj", "false", NoIds, "no such file"),
   Body("obj", Absent, NoIds, "no such file"),
   Body("obj", "true", NoIds, Absent)}

Statuses == {200, 500}

\* res.ok
resOk(res) == res.status >= 200 /\ res.status <= 299

\* a fetch() issued by `by`, not yet settled.  state is "pending" until
\* fetch() resolves or rejects, "reading" while the caller awaits res.json()
\* on the response whose status is then known, and "done", "failed" or
\* "aborted" afterwards.
Request(by) == [by |-> by, state |-> "pending", status |-> 0]

\* no response has been handed to a caller yet
NoDelivery == [req |-> 0, res |-> [status |-> 0, body |-> NullBody]]

\* part_000:39-44  the refs of a JobListView that is not mounted
NoJobList ==
  [jobs |-> <<>>, loading |-> FALSE, error |-> "", abortCtrl |-> 0,
   emitted |-> 0, mounted |-> FALSE]

\* InferencePage.vue:67-76  the refs of the page before it is mounted
NoInferencePage ==
  [jobIds |-> <<>>, jobId |-> "", testPath |-> "", outputPath |-> "",
   loading |-> FALSE, error |-> "", result |-> NullBody, ok |-> FALSE]

\* the message of the Error a caller throws for a response, or of the error
\* res.json() or a property read of null raises
HttpError(res) == "HTTP " \o ToString(res.status)

\* ------------------------------------------------------- JobListView
\* src/unnamed/part_000 (components/JobListView.vue).  A view is the pair of
\* the component's state and the browser's requests.
View(c, h) == [c |-> c, http |-> h]

\* part_000:63-67  the catch and finally of fetchJobs
fetchJobsFailed(v, name, message) ==
  [v EXCEPT !.c.error = IF name # "AbortError" THEN message ELSE @,
            !.c.loading = FALSE]

\* controller.abort(): the fetch using its signal, when not yet settled, is
\* aborted (fetch() or res.json() rejects with AbortError) and the fetchJobs
\* awaiting it goes through its catch and finally
abort(v, r) ==
  IF v.http[r].state \in {"pending", "reading"}
  THEN fetchJobsFailed([v EXCEPT !.http[r].state = "aborted"],
                       "AbortError", "The user aborted a request.")
  ELSE v

\* part_000:51-57  fetchJobs up to its first await
fetchJobs(v) ==
  LET v1 == [v EXCEPT !.c.loading = TRUE, !.c.error = ""]
      v2 == IF v1.c.abortCtrl # 0 THEN abort(v1, v1.c.abortCtrl) ELSE v1
  IN [v2 EXCEPT !.http = Append(@, Request("fetchJobs")),
                !.c.abortCtrl = Len(v2.http) + 1]

fetchJobsRespondedEarly(v, r, status) ==
  IF ~resOk([status |-> status])
  THEN fetchJobsFailed([v EXCEPT !.http[r].state = "done",
                                 !.http[r].status = status],
                       "Error", HttpError([status |-> status]))
  ELSE [v EXCEPT !.http[r].state = "reading", !.http[r].status = status,
                 !.c.loading = FALSE]

\* part_000:57-59  fetch() has resolved with the response r's status line
\* and headers: fetchJobs throws on a status that is not 2xx, and otherwise
\* awaits the body
fetchJobsResponded(v, r, status) ==
  IF ~resOk([status |-> status])
  THEN fetchJobsFailed([v EXCEPT !.http[r].state = "done",
                                 !.http[r].status = status],
                       "Error", HttpError([status |-> status]))
  ELSE [v EXCEPT !.http[r].state = "reading", !.http[r].status = status]

\* part_000:59-67  fetchJobs after res.json() has settled
fetchJobsSettled(v, res) ==
  IF res.body.json = "bad"
  THEN fetchJobsFailed(v, "SyntaxError", "Unexpected token")
  ELSE IF res.body.json = "null"
  THEN fetchJobsFailed(v, "TypeError", "Cannot read properties of null")
  ELSE IF res.body.ok # "true"
  THEN fetchJobsFailed(v, "Error", "Server returned ok=false")
  ELSE [v EXCEPT !.c.jobs = IF res.body.job_ids.kind = "array"
                             THEN res.body.job_ids.items ELSE <<>>,
                 !.c.emitted = @ + 1,
                 !.c.loading = FALSE]

\* part_000:39-44,80  a new instance of the component: onMounted(fetchJobs)
NewJobList(h) == fetchJobs(View([NoJobList EXCEPT !.mounted = TRUE], h))

\* ------------------------------------------------------ InferencePage
\* views/InferencePage.vue:84-87  loadJobs up to its first await
loadJobs(v) ==
  [v EXCEPT !.c.error = "", !.http = Append(@, Request("loadJobs"))]

\* InferencePage.vue:87-89  fetch() has resolved with the response r's
\* status line and headers: loadJobs throws on a status that is not 2xx, and
\* otherwise awaits the body
loadJobsResponded(v, r, status) ==
  IF ~resOk([status |-> status])
  THEN [v EXCEPT !.http[r].state = "done", !.http[r].status = status,
                 !.c.error = HttpError([status |-> status])]
  ELSE [v EXCEPT !.http[r].state = "reading", !.http[r].status = status]

\* InferencePage.vue:89-95  loadJobs after res.json() has settled
loadJobsSettled(v, res) ==
  IF res.body.json = "bad"
  THEN [v EXCEPT !.c.error = "Unexpected token"]
  ELSE IF res.body.json = "null"
  THEN [v EXCEPT !.c.error = "Cannot read properties of null"]
  ELSE IF res.body.ok # "true"
  THEN [v EXCEPT !.c.error = "Server returned ok=false"]
  ELSE LET ids == IF res.body.job_ids.kind = "array"
                  THEN res.body.job_ids.items ELSE <<>>
       IN [v EXCEPT !.c.jobIds = ids,
                    !.c.jobId = IF @ = "" /\ ids # <<>> THEN ids[1] ELSE @]

\* InferencePage.vue:102-106
clear(v) ==
  [v EXCEPT !.c.error = "", !.c.ok = FALSE, !.c.result = NullBody]

\* InferencePage.vue:108-122  runInference up to its first await
runInference(v) ==
  [clear(v) EXCEPT !.c.loading = TRUE,
                   !.http = Append(@, Request("runInference"))]

\* InferencePage.vue:123-133  runInference after res.json() has settled; a
\* body that cannot be read or parsed is replaced by {}
runInferenceSettled(v, res) ==
  LET data == IF res.body.json = "bad" THEN EmptyBody ELSE res.body
  IN IF ~resOk(res)
     THEN [v EXCEPT !.c.error = IF data.detail # Absent THEN data.detail
                                 ELSE HttpError(res),
                    !.c.loading = FALSE]
     ELSE IF data.json = "null"
     THEN [v EXCEPT !.c.result = data,
                    !.c.error = "Cannot read properties of null",
                    !.c.loading = FALSE]
     ELSE [v EXCEPT !.c.result = data,
                    !.c.ok = (data.ok = "true"),
                    !.c.loading = FALSE]

\* InferencePage.vue:129-133  fetch itself rejected: the request never got a
\* response
runInferenceFailed(v) ==
  [v EXCEPT !.c.error = "Failed to fetch", !.c.loading = FALSE]

\* InferencePage.vue:78
canSubmit(c) == c.jobId # "" /\ c.testPath # "" /\ c.outputPath # ""

\* InferencePage.vue:67-76,136  the page once mounted: onMounted(loadJobs)
NewInferencePage == loadJobs(View(NoInferencePage, <<>>))

\* -------------------------------------------------------- JobLogsPage
\* src/unnamed/part_001.  A tail is the pair of the page's state and the
\* WebSockets it made.  A text is the sequence of its pieces, the newline a
\* piece of its own.
LogPage(c, s) == [c |-> c, socks |-> s]

\* part_001:21-24  the refs of a page that is not mounted; urlOk tells
\* whether new WebSocket(url) accepts the URL, connects and disconnects
\* count the invocations of connect and disconnect
NoJobLogs ==
  [ws |-> NoSock, connected |-> FALSE, log |-> <<>>, urlOk |-> TRUE,
   mounted |-> FALSE, raised |-> 0, connects |-> 0, disconnects |-> 0]

\* part_001:35-40
append(t, text) ==
  [t EXCEPT !.c.log = Append(@, IF endsWith(text, <<"\n">>) THEN text
                                ELSE text \o <<"\n">>)]

\* part_001:42-55.  The four on* handlers are logsHandler below.
logsConnect(t) ==
  IF t.c.ws # NoSock THEN t
  ELSE IF ~t.c.urlOk
  THEN append(t, <<"[error] cannot open websocket">>)
  ELSE [t EXCEPT !.socks = Append(@, [state |-> CONNECTING,
      failing |-> FALSE]),
                 !.c.ws = Len(t.socks) + 1]

\* WebSocket.close() of the socket behind the handle, as wsClose above
logsClose(t, s) ==
  IF t.socks[s].state = CONNECTING
  THEN [t EXCEPT !.socks[s] = [state |-> CLOSING, failing |-> TRUE]]
  ELSE IF t.socks[s].state = OPEN
  THEN [t EXCEPT !.socks[s].state = CLOSING]
  ELSE t

\* logsDisconnect with a fault: no try around close(), and close() of a
\* socket that is already closing raises
logsDisconnectRaising(t) ==
  IF t.c.ws = NoSock THEN t
  ELSE IF t.socks[t.c.ws].state = CLOSING
  THEN [t EXCEPT !.c.raised = @ + 1]
  ELSE logsClose(t, t.c.ws)

\* part_001:57-59
logsDisconnect(t) ==
  IF t.c.ws # NoSock THEN logsClose(t, t.c.ws) ELSE t

\* part_001:51-54  ws.value.onopen / onclose / onerror / onmessage
logsHandler(t, ev, data) ==
  IF ev = "open"
  THEN append([t EXCEPT !.c.connected = TRUE], <<"[ok] connected">>)
  ELSE IF ev = "close"
  THEN [append([t EXCEPT !.c.connected = FALSE], <<"[close]">>)
          EXCEPT !.c.ws = NoSock]
  ELSE IF ev = "error" THEN append(t, <<"[error] see console">>)
  ELSE append(t, data)

\* part_001:21-24,61  the page once mounted: onMounted(connect)
NewJobLogs(urlOk) ==
  logsConnect(LogPage([NoJobLogs EXCEPT !.urlOk = urlOk, !.mounted = TRUE,
                                      !.connects = 1], <<>>))

\* the lines the log server sends
TailLines == {<<"epoch 1">>, <<"epoch 2", "\n">>}

\* the URL resolver not called, on the home page
IdleUrl == page = HomePage /\ resolved = NoResult
\* no job list, no inference page, no request
IdleHttp ==
  /\ jobList = NoJobList /\ inference = NoInferencePage
  /\ http = <<>> /\ delivered = NoDelivery
\* no log page
IdleLogs == jobLogs = NoJobLogs /\ logSocks = <<>>


\* ---------------------------------------------------------------- tasks
SockIds == 1..Len(socks)

\* App.vue:41-61  the controller once mounted
InitController ==
  /\ ws = NoSock
  /\ connected = FALSE
  /\ cfgText = MountedText
  /\ currentRunId = NoRun
  /\ log = <<>>
  /\ wsUrlOk \in BOOLEAN
  /\ socks = <<>>
  /\ calls = <<>>
  /\ waiters = <<>>
  /\ sent = <<>>
  /\ raised = 0
  /\ inbox = <<>>
  /\ nqueries = 0

\* the controller served from the home page
Init ==
  /\ InitController
  /\ IdleUrl /\ IdleHttp /\ IdleLogs

\* ConfigEditor.vue:205-210, App.vue:18,21  clickStart: update:modelValue
\* puts the form's text in cfgText, then start runs App.vue's sendStart
clickStart(st, form) ==
  sendStart([st EXCEPT !.cfgText = clickStartText(form)])

\* ConfigEditor.vue:110-116  the Start button pressed on a form: disabled
\* (a sub-object does not parse, or the label is empty) it dispatches no
\* click event, and the state stays as it is
startBtn(st, form) ==
  IF isValid(form) /\ hasLabel(form) THEN clickStart(st, form) ELSE st

\* ConfigEditor.vue:110-116,205-210  a click on the enabled Start button
ClickStartUpTo(limit) ==
  \E form \in Forms :
    /\ isValid(form) /\ hasLabel(form)
    /\ Len(calls) < limit
    /\ Commit(startBtn(State, form))
    /\ UNCHANGED <<wsUrlOk, inbox, nqueries>>

ClickStart == ClickStartUpTo(MaxStarts)

\* the Start click that opens a run session: the first one
ClickStartOnce == calls = <<>> /\ ClickStartUpTo(MaxStarts)

\* the connection is established: readyState OPEN, then the open event
SockOpen ==
  \E s \in SockIds :
    /\ socks[s].state = CONNECTING
    /\ Commit(fire([State EXCEPT !.socks[s].state = OPEN], s, "open"))
    /\ UNCHANGED <<wsUrlOk, inbox, nqueries>>

\* the connection fails or is lost: readyState CLOSED, then the error event
\* and the close event
SockFail ==
  \E s \in SockIds :
    /\ socks[s].state # CLOSED
    /\ Commit(fire(fire([State EXCEPT !.socks[s].state = CLOSED], s, "error"),
                   s, "close"))
    /\ UNCHANGED <<wsUrlOk, inbox, nqueries>>

\* the closing handshake of an established connection completes (started by
\* either side): readyState CLOSED, then the close event
SockClosed ==
  \E s \in SockIds :
    /\ socks[s].state \in {OPEN, CLOSING}
    /\ ~socks[s].failing
    /\ Commit(fire([State EXCEPT !.socks[s].state = CLOSED], s, "close"))
    /\ UNCHANGED <<wsUrlOk, inbox, nqueries>>

\* App.vue:154-157,179-182  the timer of a pending wait fires
Timeout ==
  \E i \in 1..Len(waiters) :
    /\ Commit(settle(State, waiters[i], "timeout"))
    /\ UNCHANGED <<wsUrlOk, inbox, nqueries>>

\* a message event on an established socket
Message ==
  \E s \in SockIds, m \in Messages :
    /\ socks[s].state = OPEN \/ (socks[s].state = CLOSING /\ ~socks[s].failing)
    /\ Len(inbox) < MaxMsgs
    /\ Commit(onmessage(State, m))
    /\ inbox' = Append(inbox, m)
    /\ UNCHANGED <<wsUrlOk, nqueries>>

SendStatus ==
  /\ nqueries < MaxQueries
  /\ Commit(sendStatus(State))
  /\ nqueries' = nqueries + 1
  /\ UNCHANGED <<wsUrlOk, inbox>>

SendCancel ==
  /\ nqueries < MaxQueries
  /\ Commit(sendCancel(State))
  /\ nqueries' = nqueries + 1
  /\ UNCHANGED <<wsUrlOk, inbox>>

ClearLog ==
  /\ log # <<>>
  /\ Commit(clearLog(State))
  /\ UNCHANGED <<wsUrlOk, inbox, nqueries>>

\* The connection lifecycle: Start clicks, socket events, timers, and the
\* status and cancel buttons.
Next ==
  \/ ClickStart
  \/ SockOpen
  \/ SockFail
  \/ SockClosed
  \/ Timeout
  \/ SendStatus
  \/ SendCancel

Spec == Init /\ [][Next]_vars

\* One run session: one start, the socket's events, the inbound stream,
\* status and cancel, and the log.
SpecSession ==
  Init /\ [][\/ ClickStartOnce
             \/ SockOpen
             \/ SockFail
             \/ SockClosed
             \/ Timeout
             \/ Message
             \/ SendStatus
             \/ SendCancel
             \/ ClearLog]_vars

\* ------------------------------------------------- the inbound alphabet
\* Payloads for the decoder of App.vue:75-109: text that does not parse, the
\* JSON null, and objects over every combination of type, subtype and status
\* that can change the branch taken.
Payloads ==
  {Msg("bad", Absent, Absent, Absent, Absent),
   Msg("null", Absent, Absent, Absent, Absent)}
  \cup {Msg("obj", "event", sub, st, Absent) :
          sub \in Subtypes, st \in {Absent, "fail"}}
  \cup {Msg("obj", "error", sub, st, Absent) :
          sub \in {Absent, "log"}, st \in {Absent, "success"}}
  \cup {Msg("obj", Absent, sub, st, Absent) :
          sub \in {Absent, "error"}, st \in {Absent, "success", "fail"}}

\* a message event on an established socket, over the whole alphabet
Deliver ==
  \E s \in SockIds, m \in Payloads :
    /\ socks[s].state = OPEN \/ (socks[s].state = CLOSING /\ ~socks[s].failing)
    /\ Len(inbox) < MaxInbound
    /\ Commit(onmessage(State, m))
    /\ inbox' = Append(inbox, m)
    /\ UNCHANGED <<wsUrlOk, nqueries>>

\* One connection and its inbound stream.
SpecInbound ==
  Init /\ [][\/ ClickStartOnce
             \/ SockOpen
             \/ SockFail
             \/ SockClosed
             \/ Deliver]_vars

\* ------------------------------------------------- URL resolver calls
InitUrl ==
  /\ InitController /\ wsUrlOk
  /\ IdleHttp /\ IdleLogs
  /\ page \in Pages
  /\ resolved = NoResult

InitPath ==
  /\ InitController /\ wsUrlOk
  /\ IdleHttp /\ IdleLogs
  /\ \E p \in Pathnames : page = [HomePage EXCEPT !.pathname = p]
  /\ resolved = NoResult

\* main.js:18  a component asks for the HTTP base, or for a URL under it
GetBaseURL ==
  \E subpath \in Subpaths :
    /\ resolved' = [fn |-> "getBaseURL", arg |-> subpath,
                    value |-> getBaseURL(subpath)]
    /\ UNCHANGED <<controlVars, page, httpVars, logsVars>>

\* main.js:49  App.vue:52 asks for the WebSocket URL of an action endpoint
GetWsURL ==
  \E path \in WsPaths :
    /\ resolved' = [fn |-> "getWsURL", arg |-> path, value |-> getWsURL(path)]
    /\ UNCHANGED <<controlVars, page, httpVars, logsVars>>

\* main.js:37  the prefix inferred from window.location.pathname
InferBasePath ==
  /\ resolved' = [fn |-> "inferBasePath", arg |-> page.pathname,
                  value |-> inferBasePath(page.pathname)]
  /\ UNCHANGED <<controlVars, page, httpVars, logsVars>>

\* The resolver applied to a page's location and configuration.
SpecUrl == InitUrl /\ [][GetBaseURL \/ GetWsURL]_vars

\* The prefix inferred from a pathname.
SpecPath == InitPath /\ [][InferBasePath]_vars

\* -------------------------------------------------- JobListView tasks
CommitJobList(v) ==
  /\ jobList' = v.c
  /\ http' = v.http
  /\ UNCHANGED <<controlVars, urlVars, inference, logsVars>>

settled(h, r, how) == [h EXCEPT ![r].state = how]

\* the requests of `by` that are outstanding, and those of them whose
\* fetch() has resolved and whose body is being read
Pending(by) ==
  {r \in 1..Len(http) :
     http[r].by = by /\ http[r].state \in {"pending", "reading"}}
Reading(by) == {r \in Pending(by) : http[r].state = "reading"}
Issued(by) == {r \in 1..Len(http) : http[r].by = by}

InitJobList ==
  /\ InitController /\ wsUrlOk
  /\ IdleUrl /\ IdleLogs
  /\ inference = NoInferencePage
  /\ jobList = NewJobList(<<>>).c
  /\ http = NewJobList(<<>>).http
  /\ delivered = NoDelivery

\* part_000:12,76-78  a click on Refresh, enabled while loading is false
Refresh ==
  /\ jobList.mounted /\ ~jobList.loading
  /\ Cardinality(Issued("fetchJobs")) < MaxListings
  /\ CommitJobList(fetchJobs(View(jobList, http)))
  /\ UNCHANGED delivered

\* the status line and headers of the response to a listing request arrive:
\* fetch() resolves.  A response that is not 2xx is handed over whole, its
\* body is never read.
ListHeaders ==
  \E r \in Pending("fetchJobs") \ Reading("fetchJobs"), status \in Statuses :
    /\ CommitJobList(fetchJobsResponded(View(jobList, http), r, status))
    /\ delivered' = IF resOk([status |-> status]) THEN delivered
                    ELSE [req |-> r,
                          res |-> [status |-> status, body |-> NullBody]]

\* the body of a 2xx response to a listing request has arrived: res.json()
\* settles
ListResponse ==
  \E r \in Reading("fetchJobs"), body \in ListBodies :
    LET res == [status |-> http[r].status, body |-> body]
    IN /\ CommitJobList(fetchJobsSettled(
                          View(jobList, settled(http, r, "done")), res))
       /\ delivered' = [req |-> r, res |-> res]

\* the listing request fails in the network: fetch, or the read of the body,
\* rejects
ListNetworkError ==
  \E r \in Pending("fetchJobs") :
    /\ CommitJobList(fetchJobsFailed(
                       View(jobList, settled(http, r, "failed")),
                       "TypeError", "Failed to fetch"))
    /\ UNCHANGED delivered

\* part_000:81-83  onBeforeUnmount
UnmountJobList ==
  /\ jobList.mounted
  /\ LET v == View(jobList, http)
         v1 == IF jobList.abortCtrl # 0 THEN abort(v, jobList.abortCtrl) ELSE v
     IN CommitJobList([v1 EXCEPT !.c.mounted = FALSE])
  /\ UNCHANGED delivered

\* the component is mounted again: a new instance
MountJobList ==
  /\ ~jobList.mounted
  /\ Cardinality(Issued("fetchJobs")) < MaxListings
  /\ CommitJobList(NewJobList(http))
  /\ UNCHANGED delivered

\* The job list: Refresh clicks, responses, and the component's lifetime.
SpecJobList ==
  InitJobList /\ [][\/ Refresh
                    \/ ListHeaders
                    \/ ListResponse
                    \/ ListNetworkError
                    \/ UnmountJobList
                    \/ MountJobList]_vars

\* ------------------------------------------------- InferencePage tasks
CommitInference(v) ==
  /\ inference' = v.c
  /\ http' = v.http
  /\ UNCHANGED <<controlVars, urlVars, jobList, logsVars>>

InitInference ==
  /\ InitController /\ wsUrlOk
  /\ IdleUrl /\ IdleLogs
  /\ jobList = NoJobList
  /\ inference = NewInferencePage.c
  /\ http = NewInferencePage.http
  /\ delivered = NoDelivery

\* InferencePage.vue:13  a click on Reload jobs, enabled while loading is false
ReloadJobs ==
  /\ ~inference.loading
  /\ Cardinality(Issued("loadJobs")) < MaxReloads
  /\ CommitInference(loadJobs(View(inference, http)))
  /\ UNCHANGED delivered

\* the status line and headers of the response to loadJobs arrive
JobsHeaders ==
  \E r \in Pending("loadJobs") \ Reading("loadJobs"), status \in Statuses :
    /\ CommitInference(loadJobsResponded(View(inference, http), r, status))
    /\ delivered' = IF resOk([status |-> status]) THEN delivered
                    ELSE [req |-> r,
                          res |-> [status |-> status, body |-> NullBody]]

\* the body of a 2xx response to loadJobs has arrived
JobsResponse ==
  \E r \in Reading("loadJobs"), body \in ListBodies :
    LET res == [status |-> http[r].status, body |-> body]
    IN /\ CommitInference(loadJobsSettled(
                            View(inference, settled(http, r, "done")), res))
       /\ delivered' = [req |-> r, res |-> res]

\* the request of loadJobs fails in the network: fetch, or the read of the
\* body, rejects
JobsNetworkError ==
  \E r \in Pending("loadJobs") :
    /\ CommitInference([View(inference, settled(http, r, "failed"))
                          EXCEPT !.c.error = "Failed to fetch"])
    /\ UNCHANGED delivered

\* InferencePage.vue:9-12  the user picks a job in the select, enabled while
\* loading is false; the placeholder option is disabled
SelectJob ==
  \E i \in 1..Len(inference.jobIds) :
    /\ ~inference.loading
    /\ inference.jobIds[i] # inference.jobId
    /\ CommitInference(View([inference EXCEPT !.jobId = inference.jobIds[i]],
                             http))
    /\ UNCHANGED delivered

\* InferencePage.vue:16-36  the user fills in the two paths
EditPaths ==
  \E t \in {"", "/data/test.csv"}, o \in {"", "/data/preds.csv"} :
    /\ ~inference.loading
    /\ <<t, o>> # <<inference.testPath, inference.outputPath>>
    /\ CommitInference(View([inference EXCEPT !.testPath = t,
                                               !.outputPath = o], http))
    /\ UNCHANGED delivered

\* InferencePage.vue:6,45  the form is submitted, enabled while canSubmit
\* and not loading
SubmitInference ==
  /\ canSubmit(inference) /\ ~inference.loading
  /\ Cardinality(Issued("runInference")) < MaxInferences
  /\ CommitInference(runInference(View(inference, http)))
  /\ UNCHANGED delivered

\* the status line and headers of the response to runInference arrive:
\* fetch() resolves and the body is awaited, whatever the status
InferenceHeaders ==
  \E r \in Pending("runInference") \ Reading("runInference"),
     status \in Statuses :
    /\ CommitInference(View(inference,
                            [http EXCEPT ![r].state = "reading",
                                         ![r].status = status]))
    /\ UNCHANGED delivered

\* the body of the response to runInference has arrived
InferenceResponse ==
  \E r \in Reading("runInference"), body \in InferBodies :
    LET res == [status |-> http[r].status, body |-> body]
    IN /\ CommitInference(runInferenceSettled(
                            View(inference, settled(http, r, "done")), res))
       /\ delivered' = [req |-> r, res |-> res]

\* the request of runInference fails in the network.  Before the headers
\* fetch rejects; after them res.json() rejects, which line 123 catches and
\* replaces by {}
InferenceNetworkError ==
  \E r \in Pending("runInference") :
    LET v == View(inference, settled(http, r, "failed"))
        res == [status |-> http[r].status,
                body |-> Body("bad", Absent, NoIds, Absent)]
    IN IF r \in Reading("runInference")
       THEN /\ CommitInference(runInferenceSettled(v, res))
            /\ delivered' = [req |-> r, res |-> res]
       ELSE /\ CommitInference(runInferenceFailed(v))
            /\ UNCHANGED delivered

\* InferencePage.vue:48  a click on Clear
ClickClear ==
  /\ ~inference.loading
  /\ clear(View(inference, http)).c # inference
  /\ CommitInference(clear(View(inference, http)))
  /\ UNCHANGED delivered

\* The inference page: its form, its buttons and its two kinds of request.
SpecInference ==
  InitInference /\ [][\/ ReloadJobs
                      \/ JobsHeaders
                      \/ JobsResponse
                      \/ JobsNetworkError
                      \/ SelectJob
                      \/ EditPaths
                      \/ SubmitInference
                      \/ InferenceHeaders
                      \/ InferenceResponse
                      \/ InferenceNetworkError
                      \/ ClickClear]_vars

\* --------------------------------------------------- JobLogsPage tasks
CommitLogs(t) ==
  /\ jobLogs' = t.c
  /\ logSocks' = t.socks
  /\ UNCHANGED <<controlVars, urlVars, httpVars>>

InitLogs ==
  /\ InitController /\ wsUrlOk
  /\ IdleUrl /\ IdleHttp
  /\ \E urlOk \in BOOLEAN :
       /\ jobLogs = NewJobLogs(urlOk).c
       /\ logSocks = NewJobLogs(urlOk).socks

\* part_001:5  a click on Connect, enabled while connected is false
ClickConnect ==
  /\ jobLogs.mounted /\ ~jobLogs.connected
  /\ jobLogs.connects < MaxConnects
  /\ CommitLogs(logsConnect(
       LogPage([jobLogs EXCEPT !.connects = @ + 1], logSocks)))

\* part_001:6  a click on Disconnect, enabled while connected is true
ClickDisconnect ==
  /\ jobLogs.mounted /\ jobLogs.connected
  /\ jobLogs.disconnects < MaxDisconnects
  /\ CommitLogs(logsDisconnect(
       LogPage([jobLogs EXCEPT !.disconnects = @ + 1], logSocks)))

\* part_001:62  onBeforeUnmount(disconnect)
UnmountLogs ==
  /\ jobLogs.mounted
  /\ CommitLogs(logsDisconnect(
       LogPage([jobLogs EXCEPT !.disconnects = @ + 1, !.mounted = FALSE],
             logSocks)))

LogsOpen ==
  \E s \in 1..Len(logSocks) :
    /\ logSocks[s].state = CONNECTING
    /\ CommitLogs(logsHandler(
         LogPage(jobLogs, [logSocks EXCEPT ![s].state = OPEN]), "open", <<>>))

LogsFail ==
  \E s \in 1..Len(logSocks) :
    /\ logSocks[s].state # CLOSED
    /\ CommitLogs(logsHandler(logsHandler(
         LogPage(jobLogs, [logSocks EXCEPT ![s].state = CLOSED]),
         "error", <<>>), "close", <<>>))

LogsClosed ==
  \E s \in 1..Len(logSocks) :
    /\ logSocks[s].state \in {OPEN, CLOSING}
    /\ ~logSocks[s].failing
    /\ CommitLogs(logsHandler(
         LogPage(jobLogs, [logSocks EXCEPT ![s].state = CLOSED]), "close",
                              <<>>))

LogsMessage ==
  \E s \in 1..Len(logSocks), line \in TailLines :
    /\ logSocks[s].state = OPEN
    /\ Len(jobLogs.log) < MaxLogLines
    /\ CommitLogs(logsHandler(LogPage(jobLogs, logSocks), "message", line))

SpecLogs ==
  InitLogs /\ [][\/ ClickConnect
                 \/ ClickDisconnect
                 \/ UnmountLogs
                 \/ LogsOpen
                 \/ LogsFail
                 \/ LogsClosed
                 \/ LogsMessage]_vars

\* ------------------------------------------------- a run and its restart
\* a Start click of a session that is restarted: the first or the second
ClickRestart == ClickStartUpTo(MaxRestarts)

\* a message event on an established socket, while the runs are few
RunMessage ==
  \E s \in SockIds, m \in Messages :
    /\ socks[s].state = OPEN \/ (socks[s].state = CLOSING /\ ~socks[s].failing)
    /\ Len(inbox) < MaxRunMsgs
    /\ Commit(onmessage(State, m))
    /\ inbox' = Append(inbox, m)
    /\ UNCHANGED <<wsUrlOk, nqueries>>

\* One run session and the one that replaces it.
SpecRestart ==
  Init /\ [][\/ ClickRestart
             \/ SockOpen
             \/ SockFail
             \/ SockClosed
             \/ Timeout
             \/ RunMessage
             \/ SendStatus
             \/ SendCancel
             \/ ClearLog]_vars

\* ------------------------------------------- Start clicks that differ
\* ConfigEditor.vue:113-114,205-210  a click on the enabled Start button with
\* one of two labels in the form
ClickStartLabel ==
  \E form \in [label : {"Survived", "Pclass"},
               hyperparametersText : {""}, tuningDataText : {""}] :
    /\ isValid(form) /\ hasLabel(form)
    /\ Len(calls) < MaxLabelStarts
    /\ Commit(sendStart([State EXCEPT !.cfgText = clickStartText(form)]))
    /\ UNCHANGED <<wsUrlOk, inbox, nqueries>>

\* The connection lifecycle under Start clicks whose configurations differ.
SpecLabels ==
  Init /\ [][\/ ClickStartLabel
             \/ SockOpen
             \/ SockFail
             \/ SockClosed
             \/ Timeout]_vars

\* ------------------------------------------------- timers that fire
\* a Start click while the invocations are few
ClickTimedStart == ClickStartUpTo(MaxTimedStarts)

\* The connection lifecycle with timers that fire: a setTimeout that is not
\* cleared runs its callback (App.vue:154-157,179-182).  Nothing is assumed
\* of the transport.
SpecTimers ==
  /\ Init
  /\ [][\/ ClickTimedStart
        \/ SockOpen
        \/ SockFail
        \/ SockClosed
        \/ Timeout]_vars
  /\ WF_vars(Timeout)

\* ------------------------------------------------- the router's base
\* part_002:13  createWebHistory(inferOODBase(window.location.pathname))
InferOODBase ==
  /\ resolved' = [fn |-> "inferOODBase", arg |-> page.pathname,
                  value |-> inferOODBase(page.pathname)]
  /\ UNCHANGED <<controlVars, page, httpVars, logsVars>>

\* The two prefixes inferred from one pathname: the router's and main.js's.
SpecRouter == InitPath /\ [][InferBasePath \/ InferOODBase]_vars

\* ================================================================ claims
Live(s) == socks[s].state # CLOSED
Waiting(c) == c.pc \in {"waitClose", "waitOpen"}
Done(c) == c.pc = "done"
CallIds == 1..Len(calls)
NewSockIds == (Len(socks) + 1)..Len(socks')
NewFrameIds == (Len(sent) + 1)..Len(sent')
madeBefore(c) == IF c \in CallIds THEN calls[c].made ELSE 0
ValidStart(text) == text.json = "obj" /\ text.action_type = "start"
StartFrames == {i \in 1..Len(sent) : sent[i].msg.action_type = "start"}
IsQuery(frame) == frame.msg.action_type \in {"status", "cancel"}
NotConnected == ws = NoSock \/ socks[ws].state # OPEN

\* C1: in every reachable state at most one control socket made by
\* connect() is CONNECTING, OPEN or CLOSING.
AtMostOneLiveSocket ==
  Cardinality({s \in SockIds : Live(s)}) <= 1

\* C2: a step that creates a socket leaves every earlier socket CLOSED: the
\* replacement is made only after the existing socket's close event, never
\* while a previous socket is still CONNECTING, OPEN or CLOSING.
ReplacementOnlyAfterClose ==
  [][\A n \in NewSockIds : \A s \in 1..(n - 1) : socks'[s].state = CLOSED]_vars

\* C3 (as claimed): every finished sendStart invocation made exactly one
\* socket and sent exactly one start frame.
EveryStartOneCycleOneSend ==
  \A c \in CallIds :
    Done(calls[c]) => calls[c].made = 1 /\ calls[c].sentN = 1

\* C3 (amended): an invocation makes at most one socket and sends at most one
\* start frame; one that reaches the send made exactly one socket and sent
\* exactly one frame, and the transport carries one start frame for each of
\* those and no other.
StartAtMostOneCycleOneSend ==
  /\ \A c \in CallIds :
       /\ calls[c].made <= 1
       /\ calls[c].sentN <= 1
       /\ calls[c].end = "sent" => calls[c].made = 1 /\ calls[c].sentN = 1
       /\ calls[c].end # "sent" => calls[c].sentN = 0
  /\ Cardinality(StartFrames) = Cardinality({c \in CallIds : calls[c].end = "sent"})

\* C3 witness: an invocation sent its start frame and another one finished
\* without sending.
SomeStartSentSomeNot ==
  /\ \E c \in CallIds : calls[c].end = "sent" /\ calls[c].made = 1
  /\ \E c \in CallIds : Done(calls[c]) /\ calls[c].sentN = 0

\* C4: when an invocation makes its socket, no earlier invocation is still
\* in its close wait or its open wait.
SecondStartWaitsForFirst ==
  [][\A c \in 1..Len(calls') :
       calls'[c].made > madeBefore(c)
         => \A b \in 1..(c - 1) : ~Waiting(calls'[b])]_vars

\* C5: sendStatus or sendCancel invoked while the handle is null or its
\* socket is not OPEN puts no frame on any transport and raises nothing.
QueryWhileNotConnectedIsNoOp ==
  [][(nqueries' = nqueries + 1 /\ NotConnected)
       => (sent' = sent /\ raised' = raised /\ socks' = socks)]_vars

\* C5 witness: status or cancel was invoked, no query frame was ever sent,
\* and the socket behind the handle is CLOSING.
QueryDroppedWhileClosing ==
  /\ nqueries > 0
  /\ \A i \in 1..Len(sent) : ~IsQuery(sent[i])
  /\ ws # NoSock /\ socks[ws].state = CLOSING
  /\ raised = 0

\* run_id of the last message of a sequence that carried a non-empty run_id
RECURSIVE LastRunId(_)
LastRunId(ms) ==
  IF ms = <<>> THEN NoRun
  ELSE LET m == ms[Len(ms)] IN
       IF m.json = "obj" /\ Truthy(m.run_id) THEN m.run_id
       ELSE LastRunId(SubSeq(ms, 1, Len(ms) - 1))

\* C6: after any inbound sequence the cached run id is the run_id of the
\* last message that carried one, whichever branch decoded that message
\* (stated for non-empty run ids).
CachedRunIdIsLastCarried ==
  LastRunId(inbox) # NoRun => currentRunId = LastRunId(inbox)

\* C7: once a run id is cached, a message without a run_id field (malformed
\* payloads included) leaves it as it is.
MessageWithoutRunIdKeepsCache ==
  [][(Len(inbox') = Len(inbox) + 1
        /\ inbox'[Len(inbox')].run_id = Absent
        /\ currentRunId # NoRun)
       => currentRunId' = currentRunId]_vars

\* C7 witness: a run id is cached and the message delivered last, after the
\* one that set it, had no run_id.
CacheKeptAfterBareMessage ==
  /\ Len(inbox) >= 2
  /\ inbox[Len(inbox)].run_id = Absent
  /\ Truthy(inbox[Len(inbox) - 1].run_id)
  /\ currentRunId = inbox[Len(inbox) - 1].run_id

\* C8: a status or cancel frame carries the run id cached when it is sent,
\* and no run_id when none is cached.
QueryCarriesCachedRunId ==
  [][\A i \in NewFrameIds :
       IsQuery(sent'[i])
         => sent'[i].msg.run_id
              = (IF currentRunId # NoRun THEN currentRunId ELSE Absent)]_vars

\* C8 witness: after a start and an inbound milestone with run_id "r1",
\* cancel was sent as {"action_type":"cancel","run_id":"r1"}.
CancelSentWithR1 ==
  /\ \E i \in 1..Len(inbox) :
       inbox[i] = Msg("obj", "event", "milestone", Absent, "r1")
  /\ \E i \in 1..Len(sent) :
       /\ sent[i].msg = [action_type |-> "cancel", run_id |-> "r1",
           cfg |-> Absent]
       /\ \E j \in 1..(i - 1) : sent[j].msg.action_type = "start"

\* the form's configuration fails the local validation: one of its embedded
\* sub-objects is not JSON
FailsValidation(form) ==
  ~safeParse(form.hyperparametersText).ok \/ ~safeParse(form.tuningDataText).ok

\* C9: a start whose configuration fails local validation is rejected before
\* any connection is touched: in every reachable state, Start pressed on a
\* form with a sub-object that does not parse leaves the whole state as it
\* is (the existing socket is not closed, no socket is made, no sendStart is
\* invoked); and the text every sendStart invocation began with, like the
\* text cfgText holds, is a start action that parses.
InvalidConfigTouchesNoConnection ==
  /\ \A form \in Forms : FailsValidation(form) => startBtn(State, form) = State
  /\ ValidStart(cfgText)
  /\ \A c \in CallIds : ValidStart(calls[c].cfg0)

\* C9 witness: the control socket is OPEN after a start; Start pressed on a
\* labelled form with a sub-object that does not parse leaves it alone,
\* where the same press on the form with the sub-object emptied would
\* close it and invoke sendStart
InvalidFormLeavesOpenSocket ==
  /\ connected /\ ws # NoSock /\ socks[ws].state = OPEN
  /\ Len(calls) = 1 /\ calls[1].end = "sent"
  /\ \E form \in Forms :
       /\ hasLabel(form) /\ FailsValidation(form)
       /\ startBtn(State, form) = State
       /\ LET fixed == [form EXCEPT !.hyperparametersText = "",
                                    !.tuningDataText = ""]
              after == startBtn(State, fixed)
          IN /\ Len(after.calls) = 2
             /\ after.socks[ws].state = CLOSING

\* C10: every sendStart invocation that ends without sending ends by
\* returning with an error line appended to the log; none ends by rejecting.
StartFailureIsLogged ==
  \A c \in CallIds :
    (Done(calls[c]) /\ calls[c].end # "sent") => calls[c].end = "errline"

\* the latest sendStart invocation ended on a transport error: its open wait
\* was rejected (constructor threw, error event, close event, timer) or its
\* close wait was
EndedOnTransportError(c) ==
  /\ Done(c)
  /\ c.end = "errline" \/ (c.end = "threw" /\ c.made = 0)

\* C11: once the latest sendStart invocation has ended on a transport error,
\* no step other than a new Start click makes connected true again: the
\* controller does not become Connected without further user action.
ErrorEndsDisconnected ==
  [][(/\ calls # <<>>
      /\ Len(calls') = Len(calls)
      /\ EndedOnTransportError(calls[Len(calls)]))
       => (connected' => connected)]_vars

\* C12: delivering an inbound payload (malformed text, a protocol error, a
\* failed result, an error event, or any other) changes neither the
\* connected flag nor the socket handle, and closes no socket.
InboundLeavesConnectionAlone ==
  [][Len(inbox') = Len(inbox) + 1
       => (connected' = connected /\ ws' = ws /\ socks' = socks)]_vars

\* C12 witness: malformed text and a protocol error were delivered, and the
\* controller is still connected on its open socket.
StillConnectedAfterBadPayloads ==
  /\ Len(inbox) = 2
  /\ inbox[1].json = "bad"
  /\ inbox[2].json = "obj" /\ inbox[2].type = "error"
  /\ connected /\ ws # NoSock /\ socks[ws].state = OPEN

\* the line the decode order of the claim gives a payload: parse failure,
\* then type "event" by subtype, then type "error", then a status field,
\* then unclassified
ClaimedLine(m) ==
  IF m.json = "bad" THEN "bad JSON from server"
  ELSE IF m.type = "event"
  THEN (IF m.subtype \in {"log", "milestone", "finished", "error"}
        THEN "[" \o m.subtype \o "]" ELSE "[subtype]")
  ELSE IF m.type = "error" THEN "[protocol error]"
  ELSE IF m.status = "success" THEN "[ok]"
  ELSE IF m.status # Absent THEN "[fail]"
  ELSE "[other]"

\* C20: each delivered payload appends exactly one log line, raises nothing,
\* and the line is the one of the first matching branch: malformed for text
\* that does not parse, the subtype's line for an event, the protocol-error
\* line for type "error", the result line for a status, unclassified for
\* anything else.
OneLinePerPayloadByFirstMatch ==
  [][Len(inbox') = Len(inbox) + 1
       => /\ Len(log') = Len(log) + 1
          /\ raised' = raised
          /\ log'[Len(log')].text = ClaimedLine(inbox'[Len(inbox')])]_vars

\* the value of the first source of the base that is there, in the order
\* ?base=, BASE_URL, VITE_BASE_URL, the prefix inferred from the location
FirstPresentBase ==
  IF nonEmpty(page.base) THEN page.base
  ELSE IF nonEmpty(page.BASE_URL) THEN page.BASE_URL
  ELSE IF nonEmpty(page.VITE_BASE_URL) THEN page.VITE_BASE_URL
  ELSE page.protocol \o <<"/", "/">> \o page.host
         \o inferBasePath(page.pathname)

CustomBase == <<"h", "t", "t", "p", "s", ":", "/", "/", "x", "/", "c", "u",
              "s", "t", "o", "m", "/">>

\* C13 (as claimed): getBaseURL() returns the value of the first present
\* source, as that source gives it.
BaseIsFirstPresentSource ==
  (resolved.fn = "getBaseURL" /\ resolved.arg = <<>>)
    => resolved.value = FirstPresentBase

\* C13 (amended): getBaseURL() returns the value of the first non-empty
\* source, with a "/" appended when the value does not end with one; with
\* ?base=https://x/custom/ it returns https://x/custom/ whatever the runtime
\* and build configuration hold.
BaseIsFirstNonEmptySourceSlashed ==
  (resolved.fn = "getBaseURL" /\ resolved.arg = <<>>)
    => /\ resolved.value
            = (IF endsWith(FirstPresentBase, <<"/">>) THEN FirstPresentBase
               ELSE FirstPresentBase \o <<"/">>)
       /\ page.base = CustomBase => resolved.value = CustomBase

\* C13 witness: ?base=https://x/custom/ with both configurations present,
\* and getBaseURL() returned https://x/custom/.
QueryBaseWinsOverBothConfigs ==
  /\ resolved.fn = "getBaseURL" /\ resolved.arg = <<>>
  /\ page.base = CustomBase
  /\ nonEmpty(page.BASE_URL) /\ nonEmpty(page.VITE_BASE_URL)
  /\ resolved.value = CustomBase

\* the prefix the claim gives a pathname: /node/<host>/<port>/ when the path
\* begins with the whole segments node, a non-empty host and an all-digit
\* port, and / otherwise
ClaimedPrefix(pathname) ==
  LET lead == <<"/", "n", "o", "d", "e", "/">>
      afterLead == drop(pathname, Len(lead))
      h == notSlashRun(afterLead)
      afterHost == drop(afterLead, h)
      port == IF afterHost = <<>> THEN <<>>
              ELSE SubSeq(Tail(afterHost), 1, notSlashRun(Tail(afterHost)))
  IN IF /\ startsWith(pathname, lead)
        /\ h > 0
        /\ port # <<>>
        /\ \A i \in 1..Len(port) : port[i] \in Digit
     THEN lead \o SubSeq(afterLead, 1, h) \o <<"/">> \o port \o <<"/">>
     ELSE <<"/">>

\* C14: for every pathname inferBasePath returns /node/<host>/<port>/ exactly
\* when the path begins with the three whole segments node, host and
\* all-digit port, and / otherwise; it never takes part of a segment.
PrefixIsThreeWholeSegments ==
  resolved.fn = "inferBasePath"
    => resolved.value = ClaimedPrefix(resolved.arg)

RECURSIVE stripTrailingSlashes(_)
stripTrailingSlashes(s) ==
  IF endsWith(s, <<"/">>) THEN stripTrailingSlashes(SubSeq(s, 1, Len(s) - 1))
  ELSE s
RECURSIVE stripLeadingSlashes(_)
stripLeadingSlashes(s) ==
  IF startsWith(s, <<"/">>) THEN stripLeadingSlashes(Tail(s)) ELSE s

\* the WebSocket URL the claim derives: the resolved HTTP base with http
\* replaced by ws and https by wss, one "/", then the path
ClaimedWsURL(path) ==
  LET base == getBaseURL(<<>>)
      swapped == IF startsWith(base, Https \o <<"/", "/">>)
                 THEN <<"w", "s", "s", ":">> \o drop(base, Len(Https))
                 ELSE IF startsWith(base, Http \o <<"/", "/">>)
                 THEN <<"w", "s", ":">> \o drop(base, Len(Http))
                 ELSE base
  IN stripTrailingSlashes(swapped) \o <<"/">> \o stripLeadingSlashes(path)

\* C15: with no ws override and no WS_URL configured, getWsURL(path) is the
\* resolved HTTP base, from whatever layer and on whatever host, with the
\* scheme replaced (http by ws, https by wss), followed by path with exactly
\* one "/" between them.
WsURLIsBaseWithWsScheme ==
  (/\ resolved.fn = "getWsURL"
   /\ ~nonEmpty(page.ws)
   /\ ~nonEmpty(page.WS_URL)
   /\ ~nonEmpty(page.VITE_WS_URL))
    => resolved.value = ClaimedWsURL(resolved.arg)

\* C16: in every reachable state at most one job-listing request (of
\* fetchJobs or of loadJobs) is pending: a new one is issued only after the
\* earlier one completed or was aborted.
AtMostOneListingOutstanding ==
  Cardinality(Pending("fetchJobs") \cup Pending("loadJobs")) <= 1

\* a body of the shape {ok: true, job_ids: [...]}
ConformingListing(body) ==
  body.json = "obj" /\ body.ok = "true" /\ body.job_ids.kind = "array"

\* C17: when a response to a listing request of fetchJobs is handed over and
\* its body is not of the shape {ok: true, job_ids: [...]}, the error field
\* is set, whatever the HTTP status.
ListingFailsUnlessConforming ==
  [][(/\ delivered' # delivered
      /\ http[delivered'.req].by = "fetchJobs"
      /\ ~ConformingListing(delivered'.res.body))
       => jobList'.error # ""]_vars

\* a 2xx response whose body has ok: true
InferenceSucceeded(res) ==
  resOk(res) /\ res.body.json = "obj" /\ res.body.ok = "true"

\* C18: when the response to runInference is handed over, the page is in the
\* failure state (error not empty, ok false) unless the response is 2xx
\* with ok: true in its body, and in the success state (ok true, error empty)
\* only if it is.
InferenceFailsUnlessOkTrue ==
  [][(/\ delivered' # delivered
      /\ http[delivered'.req].by = "runInference")
       => /\ ~InferenceSucceeded(delivered'.res)
               => (inference'.error # "" /\ ~inference'.ok)
          /\ (inference'.ok /\ inference'.error = "")
               => InferenceSucceeded(delivered'.res)]_vars

\* C19: in every reachable state of the log page, disconnect raises nothing
\* and a second disconnect right after the first changes nothing more; once
\* the socket has closed the handle is null and connected is false.
DisconnectIsSafeAndIdempotent ==
  LET t == LogPage(jobLogs, logSocks)
  IN /\ logsDisconnect(t).c.raised = t.c.raised
     /\ logsDisconnect(logsDisconnect(t)) = logsDisconnect(t)
     /\ jobLogs.raised = 0
     /\ (\A s \in 1..Len(logSocks) : logSocks[s].state = CLOSED)
          => (jobLogs.ws = NoSock /\ ~jobLogs.connected)

\* C19 witness: disconnect was invoked twice on one socket, which then
\* closed: the handle is null and connected is false.
ClosedAfterTwoDisconnects ==
  /\ jobLogs.disconnects >= 2
  /\ Len(logSocks) = 1 /\ logSocks[1].state = CLOSED
  /\ jobLogs.ws = NoSock /\ ~jobLogs.connected
  /\ jobLogs.raised = 0

\* C21: the event log is append-only except for clearLog.  Every task either
\* keeps the log it found as a prefix of the log it leaves, or is a clearLog:
\* it leaves the log empty and changes nothing else, neither the socket nor
\* the frames handed to it.
LogAppendOnlyExceptClear ==
  [][\/ startsWith(log', log)
     \/ /\ log' = <<>>
        /\ UNCHANGED <<ws, connected, cfgText, currentRunId, socks, calls,
                       waiters, sent, raised, inbox, nqueries>>]_vars

\* C21 witness: the log was cleared on an open connection after the start
\* frame and a message had been logged; the frame and the run id remain
ClearedWhileConnected ==
  /\ log = <<>>
  /\ connected /\ ws # NoSock /\ socks[ws].state = OPEN
  /\ Len(sent) = 1 /\ inbox # <<>> /\ currentRunId = "r1"

\* C22 (as claimed): the close event of a socket that is not the current
\* handle leaves the handle and the connected flag alone while the current,
\* newer socket is CONNECTING or OPEN.
SupersededCloseLeavesCurrentAlone ==
  [][\A s \in SockIds :
       (/\ socks[s].state # CLOSED /\ socks'[s].state = CLOSED
        /\ ws # NoSock /\ ws > s
        /\ socks'[ws].state \in {CONNECTING, OPEN})
       => /\ ws' # NoSock
          /\ connected => connected']_vars

\* C23: the cached run id changes only in the task of an inbound message that
\* carries a truthy run_id, and then to that id; every other task (Start,
\* socket events, timers, status, cancel, Clear Log) leaves it as it was, and
\* a status or cancel frame carries the id cached when it is sent.
RunIdChangesOnlyOnMessage ==
  [][/\ currentRunId' # currentRunId
        => /\ Len(inbox') = Len(inbox) + 1
           /\ Truthy(inbox'[Len(inbox')].run_id)
           /\ currentRunId' = inbox'[Len(inbox')].run_id
     /\ \A i \in NewFrameIds :
          IsQuery(sent'[i])
          => sent'[i].msg.run_id
               = (IF Truthy(currentRunId) THEN currentRunId ELSE Absent)]_vars

\* C23 witness: the first run reported its id r1 before its socket closed; on
\* the socket of the restart, which has received nothing, a status or cancel
\* went out with r1
QueryAfterRestartCarriesOldRunId ==
  /\ Len(calls) = 2 /\ Len(inbox) = 1 /\ Len(sent) = 3
  /\ Len(log) >= 4
  /\ log[3].text = "[milestone]" /\ log[4].text = "WebSocket closed"
  /\ sent[1].sock = 1 /\ sent[2].sock = 2 /\ sent[3].sock = 2
  /\ sent[2].msg.action_type = "start"
  /\ IsQuery(sent[3]) /\ sent[3].msg.run_id = "r1"

\* C24 (as claimed): the start frame a sendStart invocation sends carries the
\* configuration of the Start click that invoked it, whatever happened to
\* the configuration text while the invocation was waiting.
StartCarriesInvokingConfig ==
  [][\A c \in CallIds :
       calls'[c].sentN > calls[c].sentN
       => \A i \in NewFrameIds : sent'[i].msg = StartMsg(calls[c].cfg0)]_vars

\* C25: every sendStart invocation eventually finishes, by returning or by
\* rejecting, whatever the transport delivers or fails to deliver, provided
\* the timers of its waits fire.
EveryStartFinishes ==
  \A c \in 1..MaxTimedStarts :
    (Len(calls) >= c) ~> (Len(calls) >= c /\ calls[c].pc = "done")

\* C25 witness: the first invocation finished on the timer of its open wait;
\* its socket is still CONNECTING and has delivered no event
FinishedByTimerAlone ==
  /\ Len(calls) = 1 /\ Len(socks) = 1
  /\ socks[1].state = CONNECTING
  /\ calls[1].pc = "done" /\ calls[1].end = "errline"
  /\ log = <<[text |-> "Cannot send", cls |-> "err"]>>

\* C26: in the job list view loading is true whenever a listing request is
\* outstanding, and fetchJobs calls never overlap (Refresh is disabled while
\* loading): at most one listing request is outstanding, it is the one the
\* component holds the controller of, and loading becomes false only in a
\* step in which that latest request stops being outstanding.
LoadingWhileListingOutstanding ==
  /\ [](/\ Pending("fetchJobs") # {} => jobList.loading
        /\ Pending("fetchJobs") \subseteq {jobList.abortCtrl})
  /\ [][(jobList.loading /\ ~jobList'.loading) =>
          /\ http[jobList.abortCtrl].state \in {"pending", "reading"}
          /\ http'[jobList.abortCtrl].state
               \in {"done", "failed", "aborted"}]_vars

\* C26 witness: the first listing request was aborted (the component was
\* unmounted), a later one is outstanding, and loading is true
LoadingAfterAbortedRequest ==
  /\ Len(http) = 2
  /\ http[1].by = "fetchJobs" /\ http[1].state = "aborted"
  /\ http[2].by = "fetchJobs" /\ http[2].state = "reading"
  /\ jobList.mounted /\ jobList.abortCtrl = 2
  /\ jobList.loading

\* C27 (as claimed): for every pathname the router's history base
\* (inferOODBase) and the prefix of HTTP and WebSocket URLs (inferBasePath)
\* are the same string.
RouterBaseIsApiPrefix ==
  /\ resolved.fn = "inferOODBase"
       => resolved.value = inferBasePath(resolved.arg)
  /\ resolved.fn = "inferBasePath"
       => resolved.value = inferOODBase(resolved.arg)

====
